---- MODULE Spec2Model ----
(***************************************************************************)
(* Model of the lint rule no-unsafe-number-conversion                      *)
(* (src/src/rules/no-unsafe-number-conversion.ts, final variant, lines     *)
(* 161-439): the CallExpression visitor, the type-flag fold                *)
(* getNullableFlags, the duplication gate and the suggestion text.         *)
(***************************************************************************)
EXTENDS Integers, Sequences, FiniteSets, TLC

VARIABLES
    node,       \* the CallExpression node handed to the visitor
    argType,    \* checker.getTypeAtLocation(argument) for this node
    signature,  \* checker.getResolvedSignature(call) for this node
    reports,    \* what context.report received, in emission order
    flags,      \* the last result of getNullableFlags
    pc,         \* position of the traversal
    site,       \* index of the node in the traversal
    pending,    \* the call nodes the traversal has still to reach
    fixedAt,    \* where a suggestion was applied to the source, if one was
    scope,      \* the names user declarations bind in the scopes around the node
    unit,       \* the call sites of the source file as first parsed
    todo,       \* the sites of the unit no visit has reached yet
    runtime     \* one evaluation of a suggested replacement, if one was made

vars == <<node, argType, signature, reports, flags, pc, site, pending, fixedAt,
          scope, unit, todo, runtime>>

(***************************************************************************)
(* ts.Type as the rule reads it: getFlags(), isUnion(), types.             *)
(***************************************************************************)

\* A non-union type carrying one ts.TypeFlags bit.
LeafType(flag) == [flags |-> {flag}, types |-> <<>>]

\* A union type: TypeFlags.Union and its constituents.
UnionType(members) == [flags |-> {"Union"}, types |-> members]

NullType == LeafType("Null")
UndefinedType == LeafType("Undefined")
VoidType == LeafType("Void")
StringType == LeafType("String")
AnyType == LeafType("Any")

\* type.isUnion()
isUnion(type) == "Union" \in type.flags

\* The fold without the recursive call: only direct constituents are read.
getNullableFlagsShallow(type) ==
    [hasNull |->
        \/ "Null" \in type.flags
        \/ isUnion(type) /\ \E i \in 1..Len(type.types) : "Null" \in type.types[i].flags,
     hasUndefined |->
        \/ "Undefined" \in type.flags
        \/ "Void" \in type.flags
        \/ isUnion(type) /\ \E i \in 1..Len(type.types) :
               \/ "Undefined" \in type.types[i].flags
               \/ "Void" \in type.types[i].flags]

RECURSIVE getNullableFlags(_)
getNullableFlags(type) ==
    LET self == [hasNull |-> "Null" \in type.flags,
                 hasUndefined |-> "Undefined" \in type.flags \/ "Void" \in type.flags]
        members == IF isUnion(type)
                   THEN [i \in 1..Len(type.types) |-> getNullableFlags(type.types[i])]
                   ELSE <<>>
    IN  [hasNull |-> self.hasNull \/ \E i \in 1..Len(members) : members[i].hasNull,
         hasUndefined |-> self.hasUndefined
                          \/ \E i \in 1..Len(members) : members[i].hasUndefined]

(***************************************************************************)
(* TSESTree nodes, as far as the rule inspects them.                       *)
(***************************************************************************)

\* Values of Literal.value
JsNull == [t |-> "null", v |-> 0]
JsNumber(n) == [t |-> "number", v |-> n]

Identifier(name) == [type |-> "Identifier", name |-> name]
Literal(value, raw) == [type |-> "Literal", value |-> value, raw |-> raw]
MemberExpression(object, property, computed, optional) ==
    [type |-> "MemberExpression", object |-> object, property |-> property,
     computed |-> computed, optional |-> optional]
ChainExpression(expression) == [type |-> "ChainExpression", expression |-> expression]
CallExpressionNode(callee, arguments, optional) ==
    [type |-> "CallExpression", callee |-> callee, arguments |-> arguments,
     optional |-> optional]
BinaryExpression(left, operator, right) ==
    [type |-> "BinaryExpression", left |-> left, operator |-> operator, right |-> right]

LogicalExpression(left, operator, right) ==
    [type |-> "LogicalExpression", left |-> left, operator |-> operator, right |-> right]
ConditionalExpression(test, consequent, alternate) ==
    [type |-> "ConditionalExpression", test |-> test, consequent |-> consequent,
     alternate |-> alternate]
ArrowFunctionExpression(param, body) ==
    [type |-> "ArrowFunctionExpression", param |-> param, body |-> body]

RECURSIVE getText(_)
RECURSIVE JoinText(_)
\* sourceCode.getText(node): the source text the node was parsed from.
getText(n) ==
    CASE n.type = "Identifier" -> n.name
      [] n.type = "Literal" -> n.raw
      [] n.type = "MemberExpression" ->
            getText(n.object)
            \o (IF n.optional THEN (IF n.computed THEN "?.[" ELSE "?.")
                              ELSE (IF n.computed THEN "[" ELSE "."))
            \o getText(n.property)
            \o (IF n.computed THEN "]" ELSE "")
      [] n.type = "ChainExpression" -> getText(n.expression)
      [] n.type = "CallExpression" ->
            getText(n.callee) \o (IF n.optional THEN "?.(" ELSE "(")
            \o JoinText(n.arguments) \o ")"
      [] n.type \in {"BinaryExpression", "LogicalExpression"} ->
            getText(n.left) \o " " \o n.operator \o " " \o getText(n.right)
      [] n.type = "ConditionalExpression" ->
            getText(n.test) \o " ? " \o getText(n.consequent)
            \o " : " \o getText(n.alternate)
      [] n.type = "ArrowFunctionExpression" ->
            getText(n.param) \o " => " \o getText(n.body)

\* The argument list's text: the arguments separated by ", ".
JoinText(args) ==
    IF Len(args) = 0 THEN ""
    ELSE IF Len(args) = 1 THEN getText(args[1])
    ELSE getText(args[1]) \o ", " \o JoinText(Tail(args))

RECURSIVE isSafeAtMethod(_)
isSafeAtMethod(n) ==
    IF n.type = "ChainExpression" THEN isSafeAtMethod(n.expression)
    ELSE /\ n.type = "CallExpression"
         /\ n.callee.type = "MemberExpression"
         /\ n.callee.property.type = "Identifier"
         /\ n.callee.property.name = "at"

getConvertArgument(n) ==
    LET target == IF n.type = "ChainExpression" THEN n.expression ELSE n
    IN  IF /\ target.type = "CallExpression"
           /\ target.callee.type = "MemberExpression"
           /\ target.callee.property.type = "Identifier"
           /\ target.callee.property.name = "at"
           /\ Len(target.arguments) = 1
           /\ target.arguments[1].type = "Literal"
           /\ target.arguments[1].value = JsNumber(0)
        THEN LET objectText == getText(target.callee.object)
             IN  IF target.callee.optional
                 THEN objectText \o "?.[0]"
                 ELSE objectText \o "[0]"
        ELSE getText(n)

\* const isSafeToDuplicate = ...
isSafeToDuplicate(argument) ==
    \/ argument.type = "Identifier"
    \/ argument.type = "MemberExpression"
    \/ (argument.type = "ChainExpression"
        /\ argument.expression.type = "MemberExpression")
    \/ isSafeAtMethod(argument)

(***************************************************************************)
(* Reports and suggestions.  A location is the path from the visited call  *)
(* node: <<>> is the call itself, <<"arguments", i>> its i-th argument.    *)
(***************************************************************************)

CallLoc == <<>>
ArgLoc(i) == <<"arguments", i>>

\* { messageId, fix: fixer => fixer.replaceText(target, text) }
Suggestion(messageId, target, text) ==
    [messageId |-> messageId, fix |-> [target |-> target, text |-> text]]

\* context.report({ node, messageId, suggest }); suggest undefined is <<>>.
Report(anchor, messageId, suggestions) ==
    [node |-> anchor, messageId |-> messageId,
     suggest |-> IF Len(suggestions) > 0 THEN suggestions ELSE <<>>]

\* The direct-call suggestions with the strict-null fallback written as the
\* expression text instead of the literal.
DirectSuggestionsFallbackExpr(argument, f) ==
    LET argText == getText(argument)
        convertText == getConvertArgument(argument)
    IN  IF isSafeToDuplicate(argument)
        THEN IF f.hasNull /\ f.hasUndefined
             THEN <<Suggestion("fixMixed", CallLoc,
                        argText \o " !== null && " \o argText
                        \o " !== undefined ? Number(" \o convertText \o ") : " \o argText)>>
             ELSE IF f.hasNull
             THEN <<Suggestion("fixStrictNull", CallLoc,
                        argText \o " !== null ? Number(" \o convertText \o ") : " \o argText)>>
             ELSE IF f.hasUndefined
             THEN <<Suggestion("fixStrictUndefined", CallLoc,
                        argText \o " !== undefined ? Number(" \o convertText
                        \o ") : " \o argText)>>
             ELSE <<>>
        ELSE <<>>

\* The direct-call suggestions with the mixed case guarded by null alone.
DirectSuggestionsMixedNullOnly(argument, f) ==
    LET argText == getText(argument)
        convertText == getConvertArgument(argument)
    IN  IF isSafeToDuplicate(argument)
        THEN IF f.hasNull
             THEN <<Suggestion("fixStrictNull", CallLoc,
                        argText \o " !== null ? Number(" \o convertText \o ") : null")>>
             ELSE IF f.hasUndefined
             THEN <<Suggestion("fixStrictUndefined", CallLoc,
                        argText \o " !== undefined ? Number(" \o convertText
                        \o ") : undefined")>>
             ELSE <<>>
        ELSE <<>>

\* The direct-call suggestions with the branches not exclusive: a type that
\* admits both sentinels gets the two strict guards as alternatives.
DirectSuggestionsBothStrict(argument, f) ==
    LET argText == getText(argument)
        convertText == getConvertArgument(argument)
    IN  IF isSafeToDuplicate(argument)
        THEN (IF f.hasNull
              THEN <<Suggestion("fixStrictNull", CallLoc,
                         argText \o " !== null ? Number(" \o convertText \o ") : null")>>
              ELSE <<>>)
             \o (IF f.hasUndefined
                 THEN <<Suggestion("fixStrictUndefined", CallLoc,
                            argText \o " !== undefined ? Number(" \o convertText
                            \o ") : undefined")>>
                 ELSE <<>>)
        ELSE <<>>

\* Lines 311-349: argText, convertText, isSafeToDuplicate and the suggestions.
DirectSuggestions(argument, f) ==
    LET argText == getText(argument)
        convertText == getConvertArgument(argument)
    IN  IF isSafeToDuplicate(argument)
        THEN IF f.hasNull /\ f.hasUndefined
             THEN <<Suggestion("fixMixed", CallLoc,
                        argText \o " !== null && " \o argText
                        \o " !== undefined ? Number(" \o convertText \o ") : " \o argText)>>
             ELSE IF f.hasNull
             THEN <<Suggestion("fixStrictNull", CallLoc,
                        argText \o " !== null ? Number(" \o convertText \o ") : null")>>
             ELSE IF f.hasUndefined
             THEN <<Suggestion("fixStrictUndefined", CallLoc,
                        argText \o " !== undefined ? Number(" \o convertText
                        \o ") : undefined")>>
             ELSE <<>>
        ELSE <<>>

\* SCENARIO A's test on the callee and the argument count.
IsDirectCall(n) ==
    /\ n.callee.type = "Identifier"
    /\ n.callee.name = "Number"
    /\ Len(n.arguments) = 1

\* Scenario A that consults the type of a sentinel literal like any argument.
ScenarioANoLiteralExclusion(n, type) ==
    LET argument == n.arguments[1]
        f == getNullableFlags(type)
    IN  IF f.hasNull \/ f.hasUndefined
        THEN <<Report(ArgLoc(1), "unsafeConversion", DirectSuggestions(argument, f))>>
        ELSE <<>>

\* Scenario A that reports only what it can fix.
ScenarioADropUnfixable(n, type) ==
    LET argument == n.arguments[1]
        f == getNullableFlags(type)
    IN  IF argument.type = "Literal" /\ argument.value = JsNull
        THEN <<Report(ArgLoc(1), "unsafeConversion", <<>>)>>
        ELSE IF argument.type = "Identifier" /\ argument.name = "undefined"
        THEN <<Report(ArgLoc(1), "unsafeConversion", <<>>)>>
        ELSE IF (f.hasNull \/ f.hasUndefined) /\ isSafeToDuplicate(argument)
        THEN <<Report(ArgLoc(1), "unsafeConversion", DirectSuggestions(argument, f))>>
        ELSE <<>>

\* SCENARIO A, lines 293-358: what a direct call Number(argument) reports.
ScenarioA(n, type) ==
    LET argument == n.arguments[1]
        f == getNullableFlags(type)
    IN  IF argument.type = "Literal" /\ argument.value = JsNull
        THEN <<Report(ArgLoc(1), "unsafeConversion", <<>>)>>
        ELSE IF argument.type = "Identifier" /\ argument.name = "undefined"
        THEN <<Report(ArgLoc(1), "unsafeConversion", <<>>)>>
        ELSE IF f.hasNull \/ f.hasUndefined
        THEN <<Report(ArgLoc(1), "unsafeConversion", DirectSuggestions(argument, f))>>
        ELSE <<>>

(***************************************************************************)
(* The checker's answers that Scenario B reads.                            *)
(***************************************************************************)

\* A function-shaped type with its call signatures.
FunctionType(callSignatures) ==
    [flags |-> {"Object"}, types |-> <<>>, callSignatures |-> callSignatures]

\* A signature: its formal parameters, each a symbol with its type.
Signature(paramTypes) ==
    [parameters |-> [i \in 1..Len(paramTypes) |-> [type |-> paramTypes[i]]]]

\* checker.getResolvedSignature(call) returned undefined.
NoSignature == [parameters |-> <<>>, resolved |-> FALSE]

\* checker.getTypeOfSymbolAtLocation(symbol, tsCallNode)
getTypeOfSymbolAtLocation(symbol) == symbol.type

NeverType == LeafType("Never")

\* Neither the null type nor the undefined type.
NotNullish(t) == "Null" \notin t.flags /\ "Undefined" \notin t.flags

\* The constituents that are neither null nor undefined, in order.
RECURSIVE RemoveNullish(_)
RemoveNullish(s) ==
    IF Len(s) = 0 THEN <<>>
    ELSE IF NotNullish(Head(s)) THEN <<Head(s)>> \o RemoveNullish(Tail(s))
    ELSE RemoveNullish(Tail(s))

\* type.getNonNullableType(): null and undefined removed from the type.
getNonNullableType(type) ==
    IF isUnion(type)
    THEN LET rest == RemoveNullish(type.types)
         IN  IF Len(rest) = 0 THEN NeverType
             ELSE IF Len(rest) = 1 THEN rest[1]
             ELSE UnionType(rest)
    ELSE IF NotNullish(type) THEN type ELSE NeverType

\* type.getCallSignatures()
getCallSignatures(type) ==
    IF "callSignatures" \in DOMAIN type THEN type.callSignatures ELSE <<>>

\* The callback suggestions with the fix put on the call node instead of the
\* argument.
CallbackSuggestionsOnCall(i, f) ==
    IF f.hasNull /\ f.hasUndefined
    THEN <<Suggestion("fixMapMixed", CallLoc,
               "val => val !== null && val !== undefined ? Number(val) : val")>>
    ELSE IF f.hasNull
    THEN <<Suggestion("fixMapStrictNull", CallLoc,
               "val => val !== null ? Number(val) : null")>>
    ELSE IF f.hasUndefined
    THEN <<Suggestion("fixMapStrictUndefined", CallLoc,
               "val => val !== undefined ? Number(val) : undefined")>>
    ELSE <<>>

\* Lines 405-427: the suggestion for a callback position.
CallbackSuggestions(i, f) ==
    IF f.hasNull /\ f.hasUndefined
    THEN <<Suggestion("fixMapMixed", ArgLoc(i),
               "val => val !== null && val !== undefined ? Number(val) : val")>>
    ELSE IF f.hasNull
    THEN <<Suggestion("fixMapStrictNull", ArgLoc(i),
               "val => val !== null ? Number(val) : null")>>
    ELSE IF f.hasUndefined
    THEN <<Suggestion("fixMapStrictUndefined", ArgLoc(i),
               "val => val !== undefined ? Number(val) : undefined")>>
    ELSE <<>>

\* The forEach callback reading the slot type without getNonNullableType().
CallbackArgumentNoNarrow(n, resolvedSignature, i) ==
    LET arg == n.arguments[i]
    IN  IF arg.type # "Identifier" \/ arg.name # "Number" THEN <<>>
        ELSE IF i > Len(resolvedSignature.parameters) THEN <<>>
        ELSE
        LET paramType == getTypeOfSymbolAtLocation(resolvedSignature.parameters[i])
            callSignatures == getCallSignatures(paramType)
        IN  IF Len(callSignatures) = 0 THEN <<>>
            ELSE IF Len(callSignatures[1].parameters) = 0 THEN <<>>
            ELSE
            LET f == getNullableFlags(
                         getTypeOfSymbolAtLocation(callSignatures[1].parameters[1]))
            IN  IF f.hasNull \/ f.hasUndefined
                THEN <<Report(ArgLoc(i), "unsafeCallback", CallbackSuggestions(i, f))>>
                ELSE <<>>

\* The forEach callback that reports a slot it cannot resolve instead of
\* returning.
CallbackArgumentFailClosed(n, resolvedSignature, i) ==
    LET arg == n.arguments[i]
        unresolved == <<Report(ArgLoc(i), "unsafeCallback", <<>>)>>
    IN  IF arg.type # "Identifier" \/ arg.name # "Number" THEN <<>>
        ELSE IF i > Len(resolvedSignature.parameters) THEN unresolved
        ELSE
        LET paramType == getTypeOfSymbolAtLocation(resolvedSignature.parameters[i])
            actualParamType == getNonNullableType(paramType)
            callSignatures == getCallSignatures(actualParamType)
        IN  IF Len(callSignatures) = 0 THEN unresolved
            ELSE IF Len(callSignatures[1].parameters) = 0 THEN unresolved
            ELSE
            LET f == getNullableFlags(
                         getTypeOfSymbolAtLocation(callSignatures[1].parameters[1]))
            IN  IF f.hasNull \/ f.hasUndefined
                THEN <<Report(ArgLoc(i), "unsafeCallback", CallbackSuggestions(i, f))>>
                ELSE <<>>

\* Lines 370-435: the forEach callback for the argument at position i.
CallbackArgument(n, resolvedSignature, i) ==
    LET arg == n.arguments[i]
    IN  IF arg.type # "Identifier" \/ arg.name # "Number" THEN <<>>
        ELSE IF i > Len(resolvedSignature.parameters) THEN <<>>
        ELSE
        LET paramType == getTypeOfSymbolAtLocation(resolvedSignature.parameters[i])
            actualParamType == getNonNullableType(paramType)
            callSignatures == getCallSignatures(actualParamType)
        IN  IF Len(callSignatures) = 0 THEN <<>>
            ELSE IF Len(callSignatures[1].parameters) = 0 THEN <<>>
            ELSE
            LET f == getNullableFlags(
                         getTypeOfSymbolAtLocation(callSignatures[1].parameters[1]))
            IN  IF f.hasNull \/ f.hasUndefined
                THEN <<Report(ArgLoc(i), "unsafeCallback", CallbackSuggestions(i, f))>>
                ELSE <<>>

\* The arguments from position i on, visited from the last to the first.
RECURSIVE ForEachArgumentReversed(_, _, _)
ForEachArgumentReversed(n, resolvedSignature, i) ==
    IF i > Len(n.arguments) THEN <<>>
    ELSE ForEachArgumentReversed(n, resolvedSignature, i + 1)
         \o CallbackArgument(n, resolvedSignature, i)

\* node.arguments.forEach(...) from position i on, in argument order.
RECURSIVE ForEachArgument(_, _, _)
ForEachArgument(n, resolvedSignature, i) ==
    IF i > Len(n.arguments) THEN <<>>
    ELSE CallbackArgument(n, resolvedSignature, i)
         \o ForEachArgument(n, resolvedSignature, i + 1)

\* SCENARIO B, lines 365-435.
ScenarioB(n, resolvedSignature) ==
    IF resolvedSignature = NoSignature THEN <<>>
    ELSE ForEachArgument(n, resolvedSignature, 1)

\* The handler without the return that ends Scenario A: a direct call goes
\* on into Scenario B.
CallExpressionHandlerFallThrough(n, type, resolvedSignature) ==
    IF IsDirectCall(n)
    THEN ScenarioA(n, type) \o ScenarioB(n, resolvedSignature)
    ELSE ScenarioB(n, resolvedSignature)

\* The visitor's CallExpression handler, lines 284-436.
CallExpressionHandler(n, type, resolvedSignature) ==
    IF IsDirectCall(n) THEN ScenarioA(n, type) ELSE ScenarioB(n, resolvedSignature)

(***************************************************************************)
(* The inputs: the types the checker may answer and the call nodes the     *)
(* traversal may hand to the visitor.                                      *)
(***************************************************************************)

\* Largest number of leaves of a type built for the flag fold alone.
MaxLeaves == 4
\* Largest number of constituents of an argument's inferred type.
MaxArgTypeLeaves == 3
\* Largest number of arguments of a call and of parameters of a signature.
MaxArgs == 2

NumberType == LeafType("Number")
ObjectType == LeafType("Object")
\* The constituents a union is made of; any absorbs a union and stands alone.
LeafTypes == {NullType, UndefinedType, VoidType, StringType, NumberType}

\* No constituent occurs twice: a union holds each of its types once.
DistinctMembers(s) == \A i, j \in 1..Len(s) : s[i] = s[j] => i = j

\* The unions of distinct leaf types with n constituents.
UnionsOf(n) == {UnionType(s) : s \in {q \in [1..n -> LeafTypes] : DistinctMembers(q)}}

\* What the checker infers for an argument: any, a leaf type or a union.
ArgTypes == {AnyType} \cup LeafTypes \cup UNION {UnionsOf(n) : n \in 2..MaxArgTypeLeaves}

\* Number of leaves of a type.
RECURSIVE LeafCount(_)
RECURSIVE LeafCountSeq(_)
LeafCount(type) == IF isUnion(type) THEN LeafCountSeq(type.types) ELSE 1
LeafCountSeq(s) == IF Len(s) = 0 THEN 0 ELSE LeafCount(Head(s)) + LeafCountSeq(Tail(s))

IdX == Identifier("x")
Lit0 == Literal(JsNumber(0), "0")
Lit1 == Literal(JsNumber(1), "1")
LitNull == Literal(JsNull, "null")
CallF == CallExpressionNode(Identifier("f"), <<>>, FALSE)

\* x.at(...), x?.at(...), x.at?.(...), x[at](...): a chain when optional.
AtCall(computed, memberOptional, callOptional, args) ==
    LET call == CallExpressionNode(
                    MemberExpression(IdX, Identifier("at"), computed, memberOptional),
                    args, callOptional)
    IN  IF memberOptional \/ callOptional THEN ChainExpression(call) ELSE call

AtArgLists == {<<>>, <<Lit0>>, <<Lit1>>, <<Identifier("i")>>, <<CallF>>, <<Lit0, Lit1>>}

AtCalls ==
    {AtCall(c, m, o, a) : c \in BOOLEAN, m \in BOOLEAN, o \in BOOLEAN, a \in AtArgLists}

\* The shapes of the one argument of a direct call.
ArgNodes ==
    {LitNull, Lit0, Identifier("undefined"), IdX, Identifier("Number"),
     MemberExpression(IdX, Identifier("y"), FALSE, FALSE),
     MemberExpression(IdX, Lit0, TRUE, FALSE),
     MemberExpression(IdX, Identifier("i"), TRUE, FALSE),
     MemberExpression(CallF, Identifier("y"), FALSE, FALSE),
     ChainExpression(MemberExpression(IdX, Identifier("y"), FALSE, TRUE)),
     ChainExpression(MemberExpression(IdX, Lit0, TRUE, TRUE)),
     CallF,
     CallExpressionNode(MemberExpression(IdX, Identifier("foo"), FALSE, FALSE),
                        <<Lit0>>, FALSE),
     ChainExpression(CallExpressionNode(
         MemberExpression(IdX, Identifier("foo"), FALSE, TRUE), <<Lit0>>, FALSE)),
     ChainExpression(CallExpressionNode(Identifier("f"), <<>>, TRUE)),
     BinaryExpression(IdX, "+", Lit1)}
    \cup AtCalls

\* The types the checker can infer for an argument of that shape.
ArgTypesFor(argument) ==
    IF argument.type = "Literal"
    THEN IF argument.value = JsNull THEN {NullType, AnyType} ELSE {NumberType}
    ELSE IF argument.type = "Identifier" /\ argument.name = "undefined"
    THEN {UndefinedType, AnyType}
    ELSE IF argument.type = "Identifier" /\ argument.name = "Number"
    THEN {ObjectType}
    ELSE IF argument.type = "BinaryExpression" THEN {NumberType, StringType}
    ELSE ArgTypes

\* The first-parameter types of the callbacks a slot may expect.
CallbackParamTypes ==
    {StringType, VoidType,
     UnionType(<<StringType, NullType>>),
     UnionType(<<StringType, UndefinedType>>),
     UnionType(<<StringType, NullType, UndefinedType>>)}

\* The declared types of a parameter slot.
SlotTypes ==
    {StringType, FunctionType(<<Signature(<<>>)>>)}
    \cup {FunctionType(<<Signature(<<t>>)>>) : t \in CallbackParamTypes}
    \cup {UnionType(<<FunctionType(<<Signature(<<t>>)>>), UndefinedType, NullType>>) :
             t \in {StringType, UnionType(<<StringType, NullType>>)}}
    \cup {FunctionType(<<Signature(<<StringType>>),
                         Signature(<<UnionType(<<StringType, NullType>>)>>)>>)}

\* The sequences over S of length 0..n.
SeqsUpTo(S, n) == UNION {[1..k -> S] : k \in 0..n}

ResolvedSignatures == {NoSignature} \cup {Signature(p) : p \in SeqsUpTo(SlotTypes, MaxArgs)}

Callees ==
    {Identifier("Number"), Identifier("process"),
     MemberExpression(Identifier("arr"), Identifier("map"), FALSE, FALSE)}

\* The call nodes of the traversal.
DirectCalls == {CallExpressionNode(Identifier("Number"), <<a>>, FALSE) : a \in ArgNodes}
OtherCalls ==
    {c \in {CallExpressionNode(callee, args, FALSE) :
               callee \in Callees, args \in SeqsUpTo({Identifier("Number"), IdX}, MaxArgs)} :
        ~IsDirectCall(c)}

NoFlags == [hasNull |-> FALSE, hasUndefined |-> FALSE]

(***************************************************************************)
(* The traversal: one call node is handed to the visitor.                  *)
(***************************************************************************)

\* No suggestion has been applied.
NoFix == <<>>

\* A report of the handler, anchored in the traversal: the site's index is
\* put before the locations, which the handler gives from the call node.
AtSite(k, reps) ==
    [r \in 1..Len(reps) |->
        [node |-> <<k>> \o reps[r].node,
         messageId |-> reps[r].messageId,
         suggest |-> [j \in 1..Len(reps[r].suggest) |->
                         [messageId |-> reps[r].suggest[j].messageId,
                          fix |-> [target |-> <<k>> \o reps[r].suggest[j].fix.target,
                                   text |-> reps[r].suggest[j].fix.text]]]]]

\* No replacement has been evaluated.
NoRun == [form |-> "none"]

\* The user-declared names around a node: none of interest, or a local
\* variable, parameter, function or import named Number.
Scopes == {{}, {"Number"}}

\* checker.getResolvedSignature for a direct call: the global Number takes
\* (value?: any); a user's Number handed itself may take a callback.
DirectSignatures(n, declared) ==
    {Signature(<<AnyType>>)}
    \cup (IF "Number" \in declared /\ n.arguments[1] = Identifier("Number")
          THEN {Signature(<<t>>) : t \in SlotTypes}
          ELSE {})

\* One call site: the node and what the checker answers for it.
Site(n, type, resolvedSignature) ==
    [node |-> n, argType |-> type, signature |-> resolvedSignature]

Init ==
    /\ scope = {}
    /\ \/ /\ node \in DirectCalls
          /\ argType \in ArgTypesFor(node.arguments[1])
          /\ signature \in DirectSignatures(node, scope)
       \/ /\ node \in OtherCalls
          /\ argType = AnyType
          /\ signature \in ResolvedSignatures
    /\ reports = <<>>
    /\ flags = NoFlags
    /\ pc = "visit"
    /\ site = 1
    /\ pending = <<>>
    /\ fixedAt = NoFix
    /\ unit = <<Site(node, argType, signature)>>
    /\ todo = {}
    /\ runtime = NoRun

\* The visitor runs on the node and reports.
CallExpression ==
    /\ pc = "visit"
    /\ reports' = reports \o AtSite(site, CallExpressionHandler(node, argType, signature))
    /\ pc' = "visited"
    /\ UNCHANGED <<node, argType, signature, flags, site, pending, fixedAt>>
    /\ UNCHANGED <<scope, unit, todo, runtime>>

\* The traversal reaches the next call node.
NextNode ==
    /\ pc = "visited"
    /\ Len(pending) > 0
    /\ node' = Head(pending).node
    /\ argType' = Head(pending).argType
    /\ signature' = Head(pending).signature
    /\ pending' = Tail(pending)
    /\ site' = site + 1
    /\ pc' = "visit"
    /\ UNCHANGED <<reports, flags, fixedAt>>
    /\ UNCHANGED <<scope, unit, todo, runtime>>

(***************************************************************************)
(* A suggestion is applied and the rule runs on the rewritten source.      *)
(***************************************************************************)

\* The guard of a template: strict inequality with one sentinel or both.
GuardTest(e, kind) ==
    IF kind = "null" THEN BinaryExpression(e, "!==", LitNull)
    ELSE IF kind = "undefined" THEN BinaryExpression(e, "!==", Identifier("undefined"))
    ELSE LogicalExpression(BinaryExpression(e, "!==", LitNull), "&&",
                           BinaryExpression(e, "!==", Identifier("undefined")))

\* guard ? Number(c) : fallback, as the parser reads a template's text.
GuardedConversion(e, c, kind) ==
    ConditionalExpression(
        GuardTest(e, kind),
        CallExpressionNode(Identifier("Number"), <<c>>, FALSE),
        IF kind = "null" THEN LitNull
        ELSE IF kind = "undefined" THEN Identifier("undefined")
        ELSE e)

GuardKinds == {"null", "undefined", "mixed"}
IdVal == Identifier("val")

\* What Number(...) may hold in a rewritten span whose guard tests e: e as
\* it stands, or the bracket access getConvertArgument writes.
ConvertedNodes(e) ==
    {e, MemberExpression(IdX, Lit0, TRUE, FALSE),
     ChainExpression(MemberExpression(IdX, Lit0, TRUE, TRUE))}

\* The syntax trees the parser may produce for a rewritten span.
RewrittenNodes ==
    UNION {{GuardedConversion(e, c, k) : c \in ConvertedNodes(e), k \in GuardKinds} :
              e \in ArgNodes}
    \cup {ArrowFunctionExpression(IdVal, GuardedConversion(IdVal, IdVal, k)) :
             k \in GuardKinds}

\* The parser on a rewritten span: the tree whose source text is the text.
ParseTable == {<<getText(n), n>> : n \in RewrittenNodes}
Parse(text) == {p[2] : p \in {q \in ParseTable : q[1] = text}}

\* The call expressions of a tree in the order the traversal enters them.
RECURSIVE CallNodesOf(_)
RECURSIVE CallNodesOfSeq(_)
CallNodesOf(n) ==
    CASE n.type = "CallExpression" ->
            <<n>> \o CallNodesOf(n.callee) \o CallNodesOfSeq(n.arguments)
      [] n.type = "MemberExpression" -> CallNodesOf(n.object) \o CallNodesOf(n.property)
      [] n.type = "ChainExpression" -> CallNodesOf(n.expression)
      [] n.type \in {"BinaryExpression", "LogicalExpression"} ->
            CallNodesOf(n.left) \o CallNodesOf(n.right)
      [] n.type = "ConditionalExpression" ->
            CallNodesOf(n.test) \o CallNodesOf(n.consequent) \o CallNodesOf(n.alternate)
      [] n.type = "ArrowFunctionExpression" -> CallNodesOf(n.body)
      [] OTHER -> <<>>
CallNodesOfSeq(s) ==
    IF Len(s) = 0 THEN <<>> ELSE CallNodesOf(Head(s)) \o CallNodesOfSeq(Tail(s))

\* The kind of guard a test is.
GuardKindOf(test) ==
    IF test.type = "LogicalExpression" THEN "mixed"
    ELSE IF test.right = LitNull THEN "null" ELSE "undefined"

\* The expression a test compares with the sentinels.
GuardedExpression(test) ==
    IF test.type = "LogicalExpression" THEN test.left.left ELSE test.left

\* The leaf flags a guard rules out where it holds.
GuardRemoves(kind) ==
    IF kind = "null" THEN {"Null"}
    ELSE IF kind = "undefined" THEN {"Undefined", "Void"}
    ELSE {"Null", "Undefined", "Void"}

\* A type without the constituents that carry one of the flags.
RECURSIVE WithoutFlags(_, _)
RECURSIVE WithoutFlagsSeq(_, _)
WithoutFlags(type, removed) ==
    IF isUnion(type)
    THEN LET rest == WithoutFlagsSeq(type.types, removed)
         IN  IF Len(rest) = 0 THEN NeverType
             ELSE IF Len(rest) = 1 THEN rest[1]
             ELSE UnionType(rest)
    ELSE IF type.flags \cap removed = {} THEN type ELSE NeverType
WithoutFlagsSeq(s, removed) ==
    IF Len(s) = 0 THEN <<>>
    ELSE LET t == WithoutFlags(Head(s), removed)
         IN  (IF t = NeverType THEN <<>> ELSE <<t>>) \o WithoutFlagsSeq(Tail(s), removed)

\* A reference the checker narrows by control flow: a name, or a property or
\* literal-index access of such a reference.
RECURSIVE IsNarrowableReference(_)
IsNarrowableReference(e) ==
    CASE e.type = "Identifier" -> TRUE
      [] e.type = "ChainExpression" -> IsNarrowableReference(e.expression)
      [] e.type = "MemberExpression" ->
            /\ IsNarrowableReference(e.object)
            /\ (~e.computed \/ e.property.type = "Literal")
      [] OTHER -> FALSE

\* The expression inside a chain, or the expression itself.
Unchained(e) == IF e.type = "ChainExpression" THEN e.expression ELSE e

\* An access o[k] by a name k: narrowed or not as k is declared.
IsKeyedByName(e) ==
    /\ Unchained(e).type = "MemberExpression"
    /\ Unchained(e).computed
    /\ Unchained(e).property.type = "Identifier"
    /\ IsNarrowableReference(Unchained(e).object)

\* checker.getTypeAtLocation on the argument c of the Number(c) call in the
\* taken branch of a guard on e, where e had the type declared.
TypesAtConsequent(e, c, kind, declared) ==
    IF c = e
    THEN IF IsNarrowableReference(e) THEN {WithoutFlags(declared, GuardRemoves(kind))}
         ELSE IF IsKeyedByName(e)
         THEN {WithoutFlags(declared, GuardRemoves(kind)), declared}
         ELSE {declared}
    ELSE {declared, WithoutFlags(declared, {"Undefined"})}

\* The call nodes of a rewritten direct call, the Number(c) call of the taken
\* branch with the type the checker infers for c.
RewrittenDirectSites(parsed, type) ==
    LET calls == CallNodesOf(parsed)
    IN  [k \in 1..Len(calls) |->
            [node |-> calls[k],
             argType |-> IF calls[k] = parsed.consequent THEN type ELSE AnyType,
             signature |-> Signature(<<AnyType>>)]]

\* The call nodes of a call whose argument i is rewritten to an arrow
\* function: the call itself, then the Number(val) call of the taken branch.
RewrittenCallbackSites(n, resolvedSignature, i, parsed, type) ==
    <<[node |-> [n EXCEPT !.arguments[i] = parsed],
       argType |-> AnyType,
       signature |-> resolvedSignature],
      [node |-> parsed.body.consequent,
       argType |-> type,
       signature |-> Signature(<<AnyType>>)]>>

\* The first parameter type of the callback expected at position i.
CallbackFirstParamType(resolvedSignature, i) ==
    getTypeOfSymbolAtLocation(
        getCallSignatures(getNonNullableType(
            getTypeOfSymbolAtLocation(resolvedSignature.parameters[i])))[1].parameters[1])

\* The sites the traversal reaches in the source rewritten by a fix, whose
\* new text parses to parsed.
RewrittenSitesOf(fix, parsed) ==
        IF fix.target = <<site>> \o CallLoc
        THEN LET test == parsed.test
             IN  {RewrittenDirectSites(parsed, t) :
                     t \in TypesAtConsequent(GuardedExpression(test),
                                             parsed.consequent.arguments[1],
                                             GuardKindOf(test), argType)}
        ELSE LET i == fix.target[3]
                 test == parsed.body.test
             IN  {RewrittenCallbackSites(node, signature, i, parsed, t) :
                     t \in TypesAtConsequent(GuardedExpression(test),
                                             parsed.body.consequent.arguments[1],
                                             GuardKindOf(test),
                                             CallbackFirstParamType(signature, i))}

\* A suggestion of a report is applied; the rule then runs on the result.
ApplySuggestion ==
    /\ pc = "visited"
    /\ fixedAt = NoFix
    /\ \E r \in 1..Len(reports) : \E j \in 1..Len(reports[r].suggest) :
          LET fix == reports[r].suggest[j].fix
          IN  /\ fixedAt' = fix.target
              /\ \E parsed \in Parse(fix.text) : \E sites \in RewrittenSitesOf(fix, parsed) :
                    /\ node' = sites[1].node
                    /\ argType' = sites[1].argType
                    /\ signature' = sites[1].signature
                    /\ pending' = Tail(sites)
    /\ reports' = <<>>
    /\ site' = 1
    /\ pc' = "visit"
    /\ UNCHANGED flags
    /\ UNCHANGED <<scope, unit, todo, runtime>>

(***************************************************************************)
(* The replacement at run time: the suggested text is evaluated on the     *)
(* values its expressions may hold.                                        *)
(***************************************************************************)

\* Runtime values besides null and numbers: undefined, NaN, and the string
\* that is the decimal numeral of n.
JsUndefined == [t |-> "undefined", v |-> 0]
JsNaN == [t |-> "NaN", v |-> 0]
JsString(n) == [t |-> "string", v |-> n]

\* Number(v) on a runtime value.
ToNumber(v) ==
    CASE v = JsNull -> JsNumber(0)
      [] v = JsUndefined -> JsNaN
      [] v.t = "string" -> JsNumber(v.v)
      [] OTHER -> v

\* The strings and numbers a run may meet: zero and a numeral that is not
\* zero, to tell Number("7") from Number(null).
StringValues == {JsString(0), JsString(7)}
NumberValues == {JsNumber(0), JsNumber(7)}

RuntimeValues == {JsNull, JsUndefined} \cup StringValues \cup NumberValues

\* The runtime values a declared type allows.
RECURSIVE ValuesOf(_)
ValuesOf(type) ==
    IF isUnion(type) THEN UNION {ValuesOf(type.types[i]) : i \in 1..Len(type.types)}
    ELSE IF "Any" \in type.flags THEN RuntimeValues
    ELSE IF "Null" \in type.flags THEN {JsNull}
    ELSE IF "Undefined" \in type.flags \/ "Void" \in type.flags THEN {JsUndefined}
    ELSE IF "String" \in type.flags THEN StringValues
    ELSE IF "Number" \in type.flags THEN NumberValues
    ELSE {}

\* x[0], x?.[0] and the array accessor x.at(0), x?.at(0): all of them read
\* element 0 of x.
ReadsElementZero(n) ==
    LET m == Unchained(n)
    IN  \/ /\ m.type = "MemberExpression"
           /\ m.computed
           /\ m.property = Lit0
        \/ /\ m.type = "CallExpression"
           /\ m.callee.type = "MemberExpression"
           /\ ~m.callee.computed
           /\ m.callee.property = Identifier("at")
           /\ m.arguments = <<Lit0>>

\* What the expressions of a replacement hold while it is evaluated: element
\* 0 of x, the argument expression when it is another one, and the arrow
\* function's parameter.  The expressions have no side effects.
Environment(elem0, arg, val) == [elem0 |-> elem0, arg |-> arg, val |-> val]

\* The value of an expression of a replacement.
RECURSIVE Evaluated(_, _)
Evaluated(n, env) ==
    CASE n.type = "Literal" -> n.value
      [] n.type = "Identifier" /\ n.name = "undefined" -> JsUndefined
      [] n.type = "Identifier" /\ n.name = "val" -> env.val
      [] n.type = "BinaryExpression" /\ n.operator = "!==" ->
            Evaluated(n.left, env) # Evaluated(n.right, env)
      [] n.type = "LogicalExpression" ->
            Evaluated(n.left, env) /\ Evaluated(n.right, env)
      [] n.type = "ConditionalExpression" ->
            IF Evaluated(n.test, env) THEN Evaluated(n.consequent, env)
            ELSE Evaluated(n.alternate, env)
      [] n.type = "CallExpression" /\ n.callee = Identifier("Number") ->
            ToNumber(Evaluated(n.arguments[1], env))
      [] ReadsElementZero(n) -> env.elem0
      [] OTHER -> env.arg

\* One evaluation: the value the checked expression held and what the
\* replacement gave for it.
Run(form, value, fixed) == [form |-> form, value |-> value, fixed |-> fixed]

\* A suggested replacement is evaluated where the checked expression holds a
\* value its declared type allows: the ternary of a direct call as it
\* stands, the arrow function of a callback applied to the value.
Evaluate ==
    /\ pc = "visited"
    /\ fixedAt = NoFix
    /\ \E r \in 1..Len(reports) : \E j \in 1..Len(reports[r].suggest) :
          LET fix == reports[r].suggest[j].fix
          IN  \E parsed \in Parse(fix.text) :
                 IF parsed.type = "ArrowFunctionExpression"
                 THEN \E v \in ValuesOf(CallbackFirstParamType(signature, fix.target[3])) :
                         LET env == Environment(JsUndefined, JsUndefined, v)
                         IN  runtime' = Run("callback", v, Evaluated(parsed.body, env))
                 ELSE \E a \in RuntimeValues, b \in RuntimeValues :
                         LET env == Environment(a, b, JsUndefined)
                         IN  /\ Evaluated(node.arguments[1], env) \in ValuesOf(argType)
                             /\ runtime' = Run("direct",
                                               Evaluated(node.arguments[1], env),
                                               Evaluated(parsed, env))
    /\ pc' = "evaluated"
    /\ UNCHANGED <<node, argType, signature, reports, flags, site, pending, fixedAt>>
    /\ UNCHANGED <<scope, unit, todo>>

Next == CallExpression \/ NextNode \/ ApplySuggestion \/ Evaluate

Spec == Init /\ [][Next]_vars

(***************************************************************************)
(* The visitor where user declarations may bind the name Number.           *)
(***************************************************************************)

InitScope ==
    /\ scope \in Scopes
    /\ \/ /\ node \in DirectCalls
          /\ argType \in ArgTypesFor(node.arguments[1])
          /\ signature \in DirectSignatures(node, scope)
       \/ /\ node \in OtherCalls
          /\ argType = AnyType
          /\ signature \in ResolvedSignatures
    /\ reports = <<>>
    /\ flags = NoFlags
    /\ pc = "visit"
    /\ site = 1
    /\ pending = <<>>
    /\ fixedAt = NoFix
    /\ unit = <<Site(node, argType, signature)>>
    /\ todo = {}
    /\ runtime = NoRun

NextScope == CallExpression

SpecScope == InitScope /\ [][NextScope]_vars

(***************************************************************************)
(* A unit with several call sites, visited in any order.                   *)
(***************************************************************************)

\* Largest number of call sites of a unit.
MaxSites == 3

\* The call sites a unit is made of.
UnitSites ==
    {Site(CallExpressionNode(Identifier("Number"), <<IdX>>, FALSE),
          UnionType(<<StringType, NullType>>), Signature(<<AnyType>>)),
     Site(CallExpressionNode(Identifier("Number"), <<IdX>>, FALSE),
          StringType, Signature(<<AnyType>>)),
     Site(CallExpressionNode(Identifier("Number"), <<CallF>>, FALSE),
          UnionType(<<NumberType, NullType>>), Signature(<<AnyType>>)),
     Site(CallExpressionNode(Identifier("Number"), <<LitNull>>, FALSE),
          NullType, Signature(<<AnyType>>)),
     Site(CallExpressionNode(
              MemberExpression(Identifier("arr"), Identifier("map"), FALSE, FALSE),
              <<Identifier("Number")>>, FALSE),
          AnyType,
          Signature(<<FunctionType(<<Signature(
              <<UnionType(<<StringType, NullType>>)>>)>>)>>)),
     Site(CallExpressionNode(
              MemberExpression(Identifier("arr"), Identifier("map"), FALSE, FALSE),
              <<Identifier("Number")>>, FALSE),
          AnyType,
          Signature(<<FunctionType(<<Signature(<<StringType>>)>>)>>))}

InitUnit ==
    /\ unit \in UNION {[1..k -> UnitSites] : k \in 2..MaxSites}
    /\ todo = 1..Len(unit)
    /\ node = unit[1].node
    /\ argType = unit[1].argType
    /\ signature = unit[1].signature
    /\ site = 1
    /\ reports = <<>>
    /\ flags = NoFlags
    /\ pc = "unit"
    /\ pending = <<>>
    /\ fixedAt = NoFix
    /\ scope = {}
    /\ runtime = NoRun

\* A visitor that keeps what it reported and reports nothing twice: a site
\* whose diagnostic an earlier site already gave stays silent.
VisitSiteOnce ==
    /\ todo # {}
    /\ \E k \in todo :
          LET found == CallExpressionHandler(unit[k].node, unit[k].argType,
                                             unit[k].signature)
              known == {[messageId |-> reports[r].messageId,
                         suggest |-> reports[r].suggest] : r \in 1..Len(reports)}
              fresh == SelectSeq(AtSite(k, found),
                                 LAMBDA r : [messageId |-> r.messageId,
                                             suggest |-> r.suggest] \notin known)
          IN  /\ node' = unit[k].node
              /\ argType' = unit[k].argType
              /\ signature' = unit[k].signature
              /\ site' = k
              /\ reports' = reports \o fresh
              /\ todo' = todo \ {k}
    /\ pc' = "visited"
    /\ UNCHANGED <<flags, pending, fixedAt, scope, unit, runtime>>

\* The traversal hands some site not yet visited to the visitor, which runs
\* on it and reports.
VisitSite ==
    /\ todo # {}
    /\ \E k \in todo :
          /\ node' = unit[k].node
          /\ argType' = unit[k].argType
          /\ signature' = unit[k].signature
          /\ site' = k
          /\ reports' = reports \o AtSite(k, CallExpressionHandler(
                             unit[k].node, unit[k].argType, unit[k].signature))
          /\ todo' = todo \ {k}
    /\ pc' = "visited"
    /\ UNCHANGED <<flags, pending, fixedAt, scope, unit, runtime>>

NextUnit == VisitSite

SpecUnit == InitUnit /\ [][NextUnit]_vars

(***************************************************************************)
(* The flag fold on its own: a type is built up and then classified.       *)
(***************************************************************************)

InitFlags ==
    /\ argType \in LeafTypes \cup {AnyType}
    /\ flags = NoFlags
    /\ pc = "type"
    /\ node = CallExpressionNode(Identifier("Number"), <<IdX>>, FALSE)
    /\ signature = NoSignature
    /\ reports = <<>>
    /\ site = 1
    /\ pending = <<>>
    /\ fixedAt = NoFix
    /\ scope = {}
    /\ unit = <<>>
    /\ todo = {}
    /\ runtime = NoRun

\* What a type under construction is joined with.
JoinTypes ==
    LeafTypes
    \cup {UnionType(s) : s \in {q \in [1..2 -> {NullType, UndefinedType, StringType}] :
                                    DistinctMembers(q)}}

\* The type becomes a constituent of a new union, on the left or the right.
WrapType ==
    /\ pc = "type"
    /\ argType # AnyType
    /\ \E t \in JoinTypes :
          /\ LeafCount(argType) + LeafCount(t) <= MaxLeaves
          /\ t # argType
          /\ \/ argType' = UnionType(<<argType, t>>)
             \/ argType' = UnionType(<<t, argType>>)
    /\ UNCHANGED <<node, signature, reports, flags, pc, site, pending, fixedAt>>
    /\ UNCHANGED <<scope, unit, todo, runtime>>

\* The union gets one more constituent.
WidenType ==
    /\ pc = "type"
    /\ isUnion(argType)
    /\ \E t \in JoinTypes :
          /\ LeafCount(argType) + LeafCount(t) <= MaxLeaves
          /\ DistinctMembers(Append(argType.types, t))
          /\ argType' = UnionType(Append(argType.types, t))
    /\ UNCHANGED <<node, signature, reports, flags, pc, site, pending, fixedAt>>
    /\ UNCHANGED <<scope, unit, todo, runtime>>

\* getNullableFlags(type, checker)
Classify ==
    /\ pc = "type"
    /\ flags' = getNullableFlags(argType)
    /\ pc' = "flags"
    /\ UNCHANGED <<node, argType, signature, reports, site, pending, fixedAt>>
    /\ UNCHANGED <<scope, unit, todo, runtime>>

NextFlags == WrapType \/ WidenType \/ Classify

SpecFlags == InitFlags /\ [][NextFlags]_vars

(***************************************************************************)
(* Vocabulary of the properties.                                           *)
(***************************************************************************)

\* The flags found on the leaves of a type, however deeply nested.
RECURSIVE LeafFlagsOf(_)
LeafFlagsOf(type) ==
    IF isUnion(type)
    THEN UNION {LeafFlagsOf(type.types[i]) : i \in 1..Len(type.types)}
    ELSE type.flags

AdmitsNull(type) == "Null" \in LeafFlagsOf(type)
AdmitsUndefined(type) == "Undefined" \in LeafFlagsOf(type) \/ "Void" \in LeafFlagsOf(type)
AdmitsAbsence(type) == AdmitsNull(type) \/ AdmitsUndefined(type)

\* The leaves of a type from left to right, and the flat union of them.
RECURSIVE LeavesOf(_)
RECURSIVE LeavesOfSeq(_)
LeavesOf(type) == IF isUnion(type) THEN LeavesOfSeq(type.types) ELSE <<type>>
LeavesOfSeq(s) == IF Len(s) = 0 THEN <<>> ELSE LeavesOf(Head(s)) \o LeavesOfSeq(Tail(s))
Flattened(type) == IF isUnion(type) THEN UnionType(LeavesOf(type)) ELSE type

\* Some constituent of a constituent is itself a union.
NestedTwice(type) ==
    /\ isUnion(type)
    /\ \E i \in 1..Len(type.types) :
          /\ isUnion(type.types[i])
          /\ \E j \in 1..Len(type.types[i].types) : isUnion(type.types[i].types[j])

VisitedDirect == pc = "visited" /\ IsDirectCall(node)
VisitedOther == pc = "visited" /\ ~IsDirectCall(node)
TheArgument == node.arguments[1]

IsSentinelLiteral(e) ==
    \/ e.type = "Literal" /\ e.value = JsNull
    \/ e.type = "Identifier" /\ e.name = "undefined"

\* A call of the member named at, written o.at(...) or o?.at(...).
IsAtAccessorCall(e) ==
    /\ Unchained(e).type = "CallExpression"
    /\ Unchained(e).callee.type = "MemberExpression"
    /\ ~Unchained(e).callee.computed
    /\ Unchained(e).callee.property.type = "Identifier"
    /\ Unchained(e).callee.property.name = "at"

\* o.at(0): the accessor with the one argument 0.
IsAtZeroCall(e) ==
    /\ IsAtAccessorCall(e)
    /\ Len(Unchained(e).arguments) = 1
    /\ Unchained(e).arguments[1].type = "Literal"
    /\ Unchained(e).arguments[1].value = JsNumber(0)

\* The reports of the node under visit, in emission order.
SiteReports == SelectSeq(reports, LAMBDA r : Head(r.node) = site)

\* The node under visit has exactly this report.
OneReport(anchor, messageId, suggestions) ==
    SiteReports = AtSite(site, <<[node |-> anchor, messageId |-> messageId,
                                  suggest |-> suggestions]>>)

\* The reports of the node under visit anchored at a location of it.
ReportsAt(loc) == SelectSeq(reports, LAMBDA r : r.node = <<site>> \o loc)

(***************************************************************************)
(* C1  getNullableFlags answers hasNull exactly when some leaf of the type *)
(* is the null type and hasUndefined exactly when some leaf is the         *)
(* undefined or the void type, at every nesting depth; a union of unions   *)
(* gets the flags of the flat union of its leaves.                         *)
(***************************************************************************)
C1_FlagsMatchLeaves ==
    pc = "flags" =>
        /\ flags.hasNull = (\E i \in 1..Len(LeavesOf(argType)) :
                               LeavesOf(argType)[i] = NullType)
        /\ flags.hasUndefined = (\E i \in 1..Len(LeavesOf(argType)) :
                                    LeavesOf(argType)[i] \in {UndefinedType, VoidType})
        /\ flags = getNullableFlags(Flattened(argType))

C1_Witness ==
    /\ pc = "flags"
    /\ NestedTwice(argType)
    /\ flags = [hasNull |-> TRUE, hasUndefined |-> FALSE]
    /\ StringType \in {LeavesOf(argType)[i] : i \in 1..Len(LeavesOf(argType))}

(***************************************************************************)
(* C2  Number(null) and Number(undefined) report exactly one               *)
(* unsafeConversion at the argument, with no suggestion, whatever the      *)
(* checker would answer for the argument.                                  *)
(***************************************************************************)
C2_SentinelLiteralReported ==
    (VisitedDirect /\ IsSentinelLiteral(TheArgument)) =>
        OneReport(ArgLoc(1), "unsafeConversion", <<>>)

C2_Witness ==
    /\ VisitedDirect
    /\ TheArgument = LitNull
    /\ argType = AnyType
    /\ Len(SiteReports) = 1

(***************************************************************************)
(* C3  A direct call whose argument may be duplicated and whose type       *)
(* admits exactly one sentinel gets exactly one suggestion:                *)
(* e !== null ? Number(e') : null (fixStrictNull) or                       *)
(* e !== undefined ? Number(e') : undefined (fixStrictUndefined).          *)
(***************************************************************************)
C3_StrictTemplate ==
    LET e == getText(TheArgument)
        e2 == getConvertArgument(TheArgument)
    IN  /\ AdmitsNull(argType) =>
             OneReport(ArgLoc(1), "unsafeConversion",
                 <<[messageId |-> "fixStrictNull",
                    fix |-> [target |-> CallLoc,
                             text |-> e \o " !== null ? Number(" \o e2 \o ") : null"]]>>)
        /\ AdmitsUndefined(argType) =>
             OneReport(ArgLoc(1), "unsafeConversion",
                 <<[messageId |-> "fixStrictUndefined",
                    fix |-> [target |-> CallLoc,
                             text |-> e \o " !== undefined ? Number(" \o e2
                                      \o ") : undefined"]]>>)

\* C3 as stated: every argument that may be duplicated, the identifier
\* undefined included.
C3_Original ==
    (/\ VisitedDirect
     /\ isSafeToDuplicate(TheArgument)
     /\ AdmitsNull(argType) # AdmitsUndefined(argType)) => C3_StrictTemplate

\* C3 amended: as stated, for an argument other than the bare identifier
\* undefined.
C3_Amended ==
    (/\ VisitedDirect
     /\ isSafeToDuplicate(TheArgument)
     /\ ~IsSentinelLiteral(TheArgument)
     /\ AdmitsNull(argType) # AdmitsUndefined(argType)) => C3_StrictTemplate

C3_Witness ==
    /\ VisitedDirect
    /\ TheArgument = IdX
    /\ argType = UnionType(<<StringType, NullType>>)
    /\ Len(SiteReports) = 1
    /\ Len(SiteReports[1].suggest) = 1
    /\ SiteReports[1].suggest[1].fix.text = "x !== null ? Number(x) : null"

(***************************************************************************)
(* C4  A direct call whose argument may be duplicated and whose type       *)
(* admits both sentinels gets the one suggestion                           *)
(* e !== null && e !== undefined ? Number(e') : e (fixMixed): the untaken  *)
(* branch is the text of e.                                                *)
(***************************************************************************)
C4_MixedTemplate ==
    (/\ VisitedDirect
     /\ isSafeToDuplicate(TheArgument)
     /\ AdmitsNull(argType)
     /\ AdmitsUndefined(argType)) =>
        LET e == getText(TheArgument)
            e2 == getConvertArgument(TheArgument)
        IN  OneReport(ArgLoc(1), "unsafeConversion",
                <<[messageId |-> "fixMixed",
                   fix |-> [target |-> CallLoc,
                            text |-> e \o " !== null && " \o e \o " !== undefined ? Number("
                                     \o e2 \o ") : " \o e]]>>)

C4_Witness ==
    /\ VisitedDirect
    /\ TheArgument = IdX
    /\ argType = UnionType(<<NullType, UndefinedType>>)
    /\ Len(SiteReports) = 1
    /\ Len(SiteReports[1].suggest) = 1
    /\ SiteReports[1].suggest[1].fix.text
           = "x !== null && x !== undefined ? Number(x) : x"

(***************************************************************************)
(* C5  In a call that is no one-argument direct call, the bare identifier  *)
(* Number at position i whose slot resolves to a callback with a first     *)
(* parameter: if that parameter's type admits absence, one unsafeCallback  *)
(* is reported at the argument with the one arrow-function suggestion of   *)
(* the matching template; if it admits none, nothing is reported there.    *)
(***************************************************************************)
IsNumberReference(e) == e.type = "Identifier" /\ e.name = "Number"

\* The slot at position i, with null and undefined removed, has a call
\* signature with a formal parameter.
SlotResolved(i) ==
    /\ signature # NoSignature
    /\ i <= Len(signature.parameters)
    /\ LET sigs == getCallSignatures(getNonNullableType(signature.parameters[i].type))
       IN  Len(sigs) > 0 /\ Len(sigs[1].parameters) > 0

\* The type of the value the callback at position i receives.
CallbackInputType(i) ==
    getCallSignatures(getNonNullableType(signature.parameters[i].type))[1]
        .parameters[1].type

ArrowLabel(type) ==
    IF AdmitsNull(type) /\ AdmitsUndefined(type) THEN "fixMapMixed"
    ELSE IF AdmitsNull(type) THEN "fixMapStrictNull"
    ELSE "fixMapStrictUndefined"

ArrowText(type) ==
    IF AdmitsNull(type) /\ AdmitsUndefined(type)
    THEN "val => val !== null && val !== undefined ? Number(val) : val"
    ELSE IF AdmitsNull(type) THEN "val => val !== null ? Number(val) : null"
    ELSE "val => val !== undefined ? Number(val) : undefined"

C5_CallbackReported ==
    VisitedOther =>
        \A i \in 1..Len(node.arguments) :
            (IsNumberReference(node.arguments[i]) /\ SlotResolved(i)) =>
                IF AdmitsAbsence(CallbackInputType(i))
                THEN ReportsAt(ArgLoc(i)) =
                        AtSite(site,
                            <<[node |-> ArgLoc(i), messageId |-> "unsafeCallback",
                               suggest |->
                                   <<[messageId |-> ArrowLabel(CallbackInputType(i)),
                                      fix |-> [target |-> ArgLoc(i),
                                               text |-> ArrowText(CallbackInputType(i))]]>>]>>)
                ELSE ReportsAt(ArgLoc(i)) = <<>>

C5_Witness ==
    /\ VisitedOther
    /\ Len(node.arguments) = 2
    /\ IsNumberReference(node.arguments[2])
    /\ SlotResolved(2)
    /\ isUnion(signature.parameters[2].type)
    /\ Len(ReportsAt(ArgLoc(2))) = 1
    /\ ReportsAt(ArgLoc(2))[1].suggest[1].fix.text
           = "val => val !== null ? Number(val) : null"

(***************************************************************************)
(* C6  For a direct call whose argument is no sentinel literal, one        *)
(* unsafeConversion is reported exactly when the argument's type admits    *)
(* absence; whether the argument may be duplicated decides only whether    *)
(* the report carries a suggestion.                                        *)
(***************************************************************************)
C6_ReportedIffAbsent ==
    (VisitedDirect /\ ~IsSentinelLiteral(TheArgument)) =>
        IF AdmitsAbsence(argType)
        THEN /\ Len(SiteReports) = 1
             /\ SiteReports[1].node = <<site>> \o ArgLoc(1)
             /\ SiteReports[1].messageId = "unsafeConversion"
             /\ (Len(SiteReports[1].suggest) > 0) = isSafeToDuplicate(TheArgument)
        ELSE SiteReports = <<>>

C6_Witness ==
    /\ VisitedDirect
    /\ TheArgument = CallF
    /\ AdmitsAbsence(argType)
    /\ OneReport(ArgLoc(1), "unsafeConversion", <<>>)

(***************************************************************************)
(* C7  A direct call whose argument is a call expression other than the    *)
(* accessor o.at(...) is reported without a suggestion.                    *)
(***************************************************************************)
C7_NoSuggestionForCalls ==
    (/\ VisitedDirect
     /\ Unchained(TheArgument).type = "CallExpression"
     /\ ~IsAtAccessorCall(TheArgument)) =>
        \A i \in 1..Len(SiteReports) : SiteReports[i].suggest = <<>>

(***************************************************************************)
(* C8  A direct call Number(o.at(a)) carries a suggestion only if the      *)
(* accessor call has exactly one argument and it is the literal 0.         *)
(***************************************************************************)
C8_SuggestionOnlyAtZero ==
    (/\ VisitedDirect
     /\ IsAtAccessorCall(TheArgument)
     /\ \E i \in 1..Len(SiteReports) : Len(SiteReports[i].suggest) > 0) =>
        IsAtZeroCall(TheArgument)

(***************************************************************************)
(* C9  In a suggestion for Number(o.at(0)) the guard and the untaken       *)
(* branch keep the text of o.at(0) and Number(...) receives o[0], or       *)
(* o?.[0] for o?.at(0); for every other argument that gets a suggestion    *)
(* Number(...) receives the argument's text unchanged.                     *)
(***************************************************************************)
ExpectedConvertText(e) ==
    IF IsAtZeroCall(e)
    THEN getText(Unchained(e).callee.object)
         \o (IF Unchained(e).callee.optional THEN "?.[0]" ELSE "[0]")
    ELSE getText(e)

ExpectedDirectText(e, type) ==
    IF AdmitsNull(type) /\ AdmitsUndefined(type)
    THEN getText(e) \o " !== null && " \o getText(e) \o " !== undefined ? Number("
         \o ExpectedConvertText(e) \o ") : " \o getText(e)
    ELSE IF AdmitsNull(type)
    THEN getText(e) \o " !== null ? Number(" \o ExpectedConvertText(e) \o ") : null"
    ELSE getText(e) \o " !== undefined ? Number(" \o ExpectedConvertText(e)
         \o ") : undefined"

C9_ConvertTextNormalized ==
    VisitedDirect =>
        \A i \in 1..Len(SiteReports) : \A j \in 1..Len(SiteReports[i].suggest) :
            SiteReports[i].suggest[j].fix.text = ExpectedDirectText(TheArgument, argType)

\* The same with the computed callee o[at](0) left out.
C9_ExceptComputedCallee ==
    (VisitedDirect /\ ~(Unchained(TheArgument).type = "CallExpression"
                        /\ Unchained(TheArgument).callee.type = "MemberExpression"
                        /\ Unchained(TheArgument).callee.computed)) =>
        \A i \in 1..Len(SiteReports) : \A j \in 1..Len(SiteReports[i].suggest) :
            SiteReports[i].suggest[j].fix.text = ExpectedDirectText(TheArgument, argType)

(***************************************************************************)
(* C10  After a suggestion is applied, the rule run on the rewritten       *)
(* source reports nothing for that site: nothing in the rewritten direct   *)
(* call, and for a callback nothing at the rewritten argument or in it.    *)
(***************************************************************************)
\* A report of the second run that belongs to the rewritten span.
InRewrittenSpan(r) ==
    \/ Len(fixedAt) = 1
    \/ r.node = fixedAt
    \/ Head(r.node) > 1

C10_FixIsIdempotent ==
    fixedAt # NoFix => \A r \in 1..Len(reports) : ~InRewrittenSpan(reports[r])

(***************************************************************************)
(* C11  Every suggested replacement preserves absence and converts         *)
(* otherwise: for every value v the declared type allows, it evaluates to  *)
(* v when v is null or undefined and to Number(v) otherwise, in the        *)
(* ternary form and in the arrow-function form.                            *)
(***************************************************************************)
\* Absent values are preserved, all others converted.
PreserveAbsenceElseConvert(v) ==
    IF v \in {JsNull, JsUndefined} THEN v ELSE ToNumber(v)

C11_FixPreservesAbsence ==
    runtime # NoRun => runtime.fixed = PreserveAbsenceElseConvert(runtime.value)

\* The same with the computed callee o[at](0) left out.
C11_ExceptComputedCallee ==
    (/\ runtime # NoRun
     /\ ~(/\ runtime.form = "direct"
          /\ Unchained(TheArgument).type = "CallExpression"
          /\ Unchained(TheArgument).callee.type = "MemberExpression"
          /\ Unchained(TheArgument).callee.computed)) =>
        runtime.fixed = PreserveAbsenceElseConvert(runtime.value)

(***************************************************************************)
(* C12  Every diagnostic carries no suggestion or exactly one, and the     *)
(* template of that one is fixed by the flag pair: both sentinels give the *)
(* mixed template, null alone the strict-null one, undefined alone the     *)
(* strict-undefined one, in the direct and in the callback form.           *)
(***************************************************************************)
DirectLabel(type) ==
    IF AdmitsNull(type) /\ AdmitsUndefined(type) THEN "fixMixed"
    ELSE IF AdmitsNull(type) THEN "fixStrictNull"
    ELSE "fixStrictUndefined"

C12_AtMostOneSuggestion ==
    \A r \in 1..Len(SiteReports) :
        LET rep == SiteReports[r]
        IN  /\ Len(rep.suggest) <= 1
            /\ Len(rep.suggest) = 1 =>
                   IF rep.messageId = "unsafeConversion"
                   THEN /\ AdmitsAbsence(argType)
                        /\ rep.suggest[1].messageId = DirectLabel(argType)
                   ELSE /\ AdmitsAbsence(CallbackInputType(rep.node[3]))
                        /\ rep.suggest[1].messageId
                               = ArrowLabel(CallbackInputType(rep.node[3]))

C12_Witness ==
    /\ VisitedOther
    /\ Len(SiteReports) = 1
    /\ Len(SiteReports[1].suggest) = 1
    /\ SiteReports[1].suggest[1].messageId = "fixMapMixed"

(***************************************************************************)
(* C13  The callback analysis fails open: where the call has no resolved   *)
(* signature, or the Number argument lies beyond the signature's           *)
(* parameters, or the slot type without null and undefined has no call     *)
(* signature, or its first call signature has no formal parameter,         *)
(* nothing is reported for that argument.                                  *)
(***************************************************************************)
C13_FailsOpen ==
    VisitedOther =>
        \A i \in 1..Len(node.arguments) :
            (IsNumberReference(node.arguments[i]) /\ ~SlotResolved(i)) =>
                ReportsAt(ArgLoc(i)) = <<>>

C13_Witness ==
    /\ VisitedOther
    /\ Len(node.arguments) = 2
    /\ IsNumberReference(node.arguments[1])
    /\ IsNumberReference(node.arguments[2])
    /\ Len(signature.parameters) = 1
    /\ signature.parameters[1].type = FunctionType(<<Signature(<<>>)>>)
    /\ reports = <<>>

(***************************************************************************)
(* C14  Where a user declaration binds the name Number in a scope around   *)
(* the node, neither a direct call Number(e) nor a bare reference Number   *)
(* passed as an argument is reported.                                      *)
(***************************************************************************)
C14_ShadowedNumberNotReported ==
    (pc = "visited" /\ "Number" \in scope) => SiteReports = <<>>

(***************************************************************************)
(* C15  A direct call Number(e) with one argument is handled by Scenario A *)
(* alone: it yields at most one diagnostic, anchored at the argument, and  *)
(* never an unsafeCallback, also for Number(Number).                       *)
(***************************************************************************)
C15_DirectCallSkipsCallbacks ==
    VisitedDirect =>
        /\ Len(SiteReports) <= 1
        /\ \A r \in 1..Len(SiteReports) :
              /\ SiteReports[r].messageId = "unsafeConversion"
              /\ SiteReports[r].node = <<site>> \o ArgLoc(1)

C15_Witness ==
    /\ VisitedDirect
    /\ IsNumberReference(TheArgument)
    /\ SlotResolved(1)
    /\ AdmitsAbsence(CallbackInputType(1))
    /\ reports = <<>>

(***************************************************************************)
(* C16  A suggestion replaces its own span only.  In the callback form the *)
(* fix is put on the Number argument the diagnostic is anchored at, and    *)
(* the rewritten call keeps its callee and its other arguments in place.   *)
(* In the direct form the diagnostic is anchored at the argument and the   *)
(* fix is put on the whole call node.                                      *)
(***************************************************************************)
\* Where the fixes of the reports of the node under visit are put.
FixesOnOwnSpan ==
    \A r \in 1..Len(SiteReports) : \A j \in 1..Len(SiteReports[r].suggest) :
        LET rep == SiteReports[r]
            fix == rep.suggest[j].fix
        IN  IF rep.messageId = "unsafeCallback"
            THEN /\ fix.target = rep.node
                 /\ Len(fix.target) = 3
                 /\ IsNumberReference(node.arguments[fix.target[3]])
            ELSE /\ fix.target = <<site>> \o CallLoc
                 /\ rep.node = <<site>> \o ArgLoc(1)

\* The call as first parsed and the call after the fix of argument i.
OnlyArgumentReplaced(old, new, i) ==
    /\ new.callee = old.callee
    /\ new.optional = old.optional
    /\ Len(new.arguments) = Len(old.arguments)
    /\ \A k \in 1..Len(old.arguments) : k # i => new.arguments[k] = old.arguments[k]
    /\ IsNumberReference(old.arguments[i])
    /\ new.arguments[i].type = "ArrowFunctionExpression"

C16_FixReplacesOwnSpan ==
    /\ (pc = "visited" /\ fixedAt = NoFix) => FixesOnOwnSpan
    /\ (fixedAt # NoFix /\ site = 1) =>
           IF Len(fixedAt) = 3
           THEN OnlyArgumentReplaced(unit[1].node, node, fixedAt[3])
           ELSE fixedAt = <<1>> \o CallLoc /\ IsDirectCall(unit[1].node)

C16_Witness ==
    /\ fixedAt = <<1>> \o ArgLoc(2)
    /\ site = 1
    /\ node.callee = MemberExpression(Identifier("arr"), Identifier("map"), FALSE, FALSE)
    /\ node.arguments[1] = IdX
    /\ node.arguments[2].type = "ArrowFunctionExpression"

(***************************************************************************)
(* C17  Call sites are analysed independently: in whatever order the sites *)
(* of a unit are visited, and whatever was visited before, the reports of  *)
(* a visited site are what the handler gives for that site alone, and a    *)
(* site not yet visited has none.                                          *)
(***************************************************************************)
\* The reports anchored in site k, in emission order.
ReportsOfSite(k) == SelectSeq(reports, LAMBDA r : Head(r.node) = k)

C17_SitesIndependent ==
    \A k \in 1..Len(unit) :
        IF k \in todo
        THEN ReportsOfSite(k) = <<>>
        ELSE ReportsOfSite(k)
                = AtSite(k, CallExpressionHandler(unit[k].node, unit[k].argType,
                                                  unit[k].signature))

C17_Witness ==
    /\ Len(unit) = 3
    /\ todo = {}
    /\ site = 1
    /\ Len(reports) = 3
    /\ Head(reports[1].node) = 3
    /\ unit[1] = unit[3]

(***************************************************************************)
(* C18  In a call that passes the bare Number at several positions, each   *)
(* position is checked against its own slot and reported on its own; the   *)
(* unsafeCallback diagnostics come in ascending argument position, and a   *)
(* position that fails open does not suppress a later one.                 *)
(***************************************************************************)
C18_ReportedLeftToRight ==
    VisitedOther =>
        /\ \A r \in 1..Len(SiteReports) :
              /\ SiteReports[r].messageId = "unsafeCallback"
              /\ Len(SiteReports[r].node) = 3
              /\ IsNumberReference(node.arguments[SiteReports[r].node[3]])
        /\ \A a, b \in 1..Len(SiteReports) :
              a < b => SiteReports[a].node[3] < SiteReports[b].node[3]
        /\ \A i \in 1..Len(node.arguments) :
              (/\ IsNumberReference(node.arguments[i])
               /\ SlotResolved(i)
               /\ AdmitsAbsence(CallbackInputType(i))) =>
                  Len(ReportsAt(ArgLoc(i))) = 1

C18_Witness ==
    /\ VisitedOther
    /\ Len(SiteReports) = 2
    /\ SiteReports[1].node = <<site>> \o ArgLoc(1)
    /\ SiteReports[2].node = <<site>> \o ArgLoc(2)
    /\ SiteReports[1].suggest # SiteReports[2].suggest

====
